---- MODULE Spec2Model ----
(***************************************************************************)
(* Study Buddy AI: the agent loop (run_conversation in streamlit_app.py,   *)
(* main in study_buddy_agent.py), the tool registry and the StudyBuddyDB   *)
(* store (SQLite tables users, study_plans, topics, quizzes).              *)
(*                                                                         *)
(* Spec      : the agent loop driving the registered tools over the store. *)
(* StoreSpec : the StudyBuddyDB methods called directly, one call at a     *)
(*             time (each method opens, uses and closes one connection).   *)
(***************************************************************************)
EXTENDS Integers, Sequences, FiniteSets, TLC

VARIABLES
    users,               \* table users: row i is the username with id i
    study_plans,         \* table study_plans: row i has id i
    topics,              \* table topics: row i has id i
    quizzes,             \* table quizzes: row i has id i
    now,                 \* the wall clock in whole seconds (CURRENT_TIMESTAMP)
    tieOrder,            \* the order in which this SQLite build returns rows
                         \* that are equal under ORDER BY
    mode,                \* "app": run_conversation; "cli": main
    pc,                  \* position of the loop
    username,            \* the session's username
    messages,            \* the message history sent to the provider
    conversation_steps,  \* run_conversation's trace of (kind, content)
    final_output,        \* run_conversation's final answer / main's last print
    pending,             \* the tool call the action step is about to make
    script,              \* history: the provider's responses in this turn
    toolCalls,           \* history: the tool invocations made in this turn
    turnStart,           \* history: Len(messages) when this turn's query was in
    calls,               \* history: provider calls made in this session
    turns,               \* history: user queries entered in this session
    ret,                 \* StoreSpec: the last store call and what it returned
    ids,                 \* StoreSpec: per username, the ids get_or_create_user returned
    apiCalls             \* StoreSpec: store calls made so far

storeVars == <<users, study_plans, topics, quizzes, now, tieOrder>>
loopVars == <<mode, pc, username, messages, conversation_steps, final_output,
              pending, script, toolCalls, turnStart, calls, turns>>
apiVars == <<ret, ids, apiCalls>>
vars == <<users, study_plans, topics, quizzes, now, tieOrder, mode, pc, username,
          messages, conversation_steps, final_output, pending, script,
          toolCalls, turnStart, calls, turns, ret, ids, apiCalls>>

(***************************************************************************)
(* Bounds of the model.                                                    *)
(***************************************************************************)
MaxCalls == 3       \* provider calls in one session
MaxTurns == 2       \* user queries in one session
MaxClock == 1       \* seconds the clock advances
MaxApiCalls == 5    \* StoreSpec: calls in one run
MaxToolCalls == 4   \* ToolSpec: tool invocations in one run
MaxMixedCalls == 3  \* DbSpec: store calls and tool invocations in one run

\* Python's None where a string is expected (a missing JSON key read with
\* .get, an absent tool input).
None == "<None>"

\* Python's None where a record is expected (a store method returning None).
NoneRec == [none |-> TRUE]
IsNone(r) == "none" \in DOMAIN r

\* cursor.fetchone() returning None for the "most recent plan" query: no row,
\* where rows have the ids 1, 2, ...
NoPlan == 0

Usernames == {"alice", "bob"}

(***************************************************************************)
(* StudyBuddyDB.                                                           *)
(***************************************************************************)
SetMax(S) == CHOOSE x \in S : \A y \in S : y <= x
SetMin(S) == CHOOSE x \in S : \A y \in S : x <= y

\* SQL leaves the order of rows that are equal under ORDER BY unspecified. A
\* SQLite build answers the same query on the same table the same way every
\* time: rows with equal created_at come by ascending id ("lowest_id", what
\* SQLite 3.40 does) or by descending id ("highest_id").
TieOrders == {"lowest_id", "highest_id"}

\* SELECT id FROM users WHERE username = ?
UserIds(us, name) == {i \in DOMAIN us : us[i] = name}

\* get_or_create_user with an INSERT for every call (no lookup first).
GetOrCreateUser_AlwaysInsert(us, name) ==
    [users |-> Append(us, name), id |-> Len(us) + 1]

\* get_or_create_user: the id of the row with this username, inserted first
\* when there is none. The result is [users |-> the table after, id |-> id].
GetOrCreateUser(us, name) ==
    IF UserIds(us, name) # {}
    THEN [users |-> us, id |-> CHOOSE i \in UserIds(us, name) : TRUE]
    ELSE [users |-> Append(us, name), id |-> Len(us) + 1]

\* create_study_plan: one study_plans row stamped with the current second,
\* and one topics row per submitted topic, each with progress 0.
\* A topic row whose progress follows the submitted completed flag.
TopicRow_ProgressFromCompleted(plan_id, t) ==
    [plan_id |-> plan_id, day |-> t.day, topic |-> t.topic,
     completed |-> t.completed, progress |-> IF t.completed THEN 100 ELSE 0]

TopicRow(plan_id, t) ==
    [plan_id |-> plan_id, day |-> t.day, topic |-> t.topic,
     completed |-> t.completed, progress |-> 0]

RECURSIVE InsertTopics(_, _, _)
InsertTopics(tp, plan_id, submitted) ==
    IF submitted = <<>> THEN tp
    ELSE InsertTopics(Append(tp, TopicRow(plan_id, Head(submitted))),
                      plan_id, Tail(submitted))

\* create_study_plan keeping one plan per user: a plan the user already has
\* is overwritten (INSERT OR REPLACE keyed by the user).
CreateStudyPlan_Replaces(sp, tp, clock, user_id, subject, goal, submitted) ==
    IF \E i \in DOMAIN sp : sp[i].user_id = user_id
    THEN LET id == CHOOSE i \in DOMAIN sp : sp[i].user_id = user_id
         IN  [study_plans |-> [sp EXCEPT ![id] = [user_id |-> user_id,
                                                  subject |-> subject,
                                                  goal |-> goal,
                                                  created_at |-> clock]],
              topics |-> InsertTopics(tp, id, submitted),
              id |-> id]
    ELSE [study_plans |-> Append(sp, [user_id |-> user_id, subject |-> subject,
                                      goal |-> goal, created_at |-> clock]),
          topics |-> InsertTopics(tp, Len(sp) + 1, submitted),
          id |-> Len(sp) + 1]

CreateStudyPlan(sp, tp, clock, user_id, subject, goal, submitted) ==
    [study_plans |-> Append(sp, [user_id |-> user_id, subject |-> subject,
                                 goal |-> goal, created_at |-> clock]),
     topics |-> InsertTopics(tp, Len(sp) + 1, submitted),
     id |-> Len(sp) + 1]

\* SELECT ... FROM study_plans WHERE user_id = ? ORDER BY created_at DESC
\* LIMIT 1: created_at has a resolution of one second, so several plans of
\* the user may have the greatest created_at; the build's tie order decides
\* which of them is the row returned.
\* The plans of every user taken for the user's own.
PlansOf_AnyUser(sp, user_id) == DOMAIN sp

PlansOf(sp, user_id) == {i \in DOMAIN sp : sp[i].user_id = user_id}

MostRecentPlans(sp, user_id) ==
    {i \in PlansOf(sp, user_id) :
        \A j \in PlansOf(sp, user_id) : sp[j].created_at <= sp[i].created_at}

\* The plan the user's create_study_plan calls created last.
LastCreatedPlan(sp, user_id) == SetMax(PlansOf(sp, user_id))

\* SELECT day, topic, completed, progress FROM topics WHERE plan_id = ?
\* ORDER BY day: the rows of the plan, by insertion-stable ascending day.
TopicIdsOf(tp, plan_id) == {i \in DOMAIN tp : tp[i].plan_id = plan_id}

RECURSIVE TopicsByDay(_, _)
TopicsByDay(tp, S) ==
    IF S = {} THEN <<>>
    ELSE LET i == CHOOSE k \in S : \A j \in S :
                      \/ tp[k].day < tp[j].day
                      \/ tp[k].day = tp[j].day /\ k <= j
         IN  <<[day |-> tp[i].day, topic |-> tp[i].topic,
                completed |-> tp[i].completed, progress |-> tp[i].progress]>>
             \o TopicsByDay(tp, S \ {i})

\* get_current_study_plan once the plan row is chosen.
CurrentStudyPlan(sp, tp, plan_id) ==
    IF plan_id = NoPlan THEN NoneRec
    ELSE [subject |-> sp[plan_id].subject, goal |-> sp[plan_id].goal,
          study_plan |-> TopicsByDay(tp, TopicIdsOf(tp, plan_id))]

\* The row choices of the "most recent plan" query: a plan id, or no row.
PlanChoices(sp, user_id) ==
    IF MostRecentPlans(sp, user_id) = {} THEN {NoPlan}
    ELSE IF tieOrder = "lowest_id" THEN {SetMin(MostRecentPlans(sp, user_id))}
    ELSE {SetMax(MostRecentPlans(sp, user_id))}

\* UPDATE topics SET progress = ? WHERE plan_id = ? AND topic = ?
Matching(tp, plan_id, topic_name) ==
    {i \in DOMAIN tp : tp[i].plan_id = plan_id /\ tp[i].topic = topic_name}

\* update_topic_progress adding the value to the progress, without a cap.
UpdateTopicProgress_Adds(tp, plan_id, topic_name, value) ==
    IF plan_id = NoPlan THEN [topics |-> tp, ok |-> FALSE]
    ELSE [topics |-> [i \in DOMAIN tp |->
                        IF i \in Matching(tp, plan_id, topic_name)
                        THEN [tp[i] EXCEPT !.progress = @ + value]
                        ELSE tp[i]],
          ok |-> Matching(tp, plan_id, topic_name) # {}]

UpdateTopicProgress(tp, plan_id, topic_name, value) ==
    IF plan_id = NoPlan THEN [topics |-> tp, ok |-> FALSE]
    ELSE [topics |-> [i \in DOMAIN tp |->
                        IF i \in Matching(tp, plan_id, topic_name)
                        THEN [tp[i] EXCEPT !.progress = value]
                        ELSE tp[i]],
          ok |-> Matching(tp, plan_id, topic_name) # {}]

\* mark_topic_complete adding to the progress instead of setting it.
MarkTopicComplete_Adds(tp, plan_id, topic_name) ==
    IF plan_id = NoPlan THEN [topics |-> tp, ok |-> FALSE]
    ELSE [topics |-> [i \in DOMAIN tp |->
                        IF i \in Matching(tp, plan_id, topic_name)
                        THEN [tp[i] EXCEPT !.completed = TRUE,
                                           !.progress = IF @ < 100 THEN @ + 50 ELSE 100]
                        ELSE tp[i]],
          ok |-> Matching(tp, plan_id, topic_name) # {}]

\* mark_topic_complete changing the first matching row only.
MarkTopicComplete_FirstOnly(tp, plan_id, topic_name) ==
    IF plan_id = NoPlan THEN [topics |-> tp, ok |-> FALSE]
    ELSE [topics |-> [i \in DOMAIN tp |->
                        IF /\ Matching(tp, plan_id, topic_name) # {}
                           /\ i = SetMin(Matching(tp, plan_id, topic_name))
                        THEN [tp[i] EXCEPT !.completed = TRUE, !.progress = 100]
                        ELSE tp[i]],
          ok |-> Matching(tp, plan_id, topic_name) # {}]

\* UPDATE topics SET completed = 1, progress = 100 WHERE plan_id = ? AND topic = ?
MarkTopicComplete(tp, plan_id, topic_name) ==
    IF plan_id = NoPlan THEN [topics |-> tp, ok |-> FALSE]
    ELSE [topics |-> [i \in DOMAIN tp |->
                        IF i \in Matching(tp, plan_id, topic_name)
                        THEN [tp[i] EXCEPT !.completed = TRUE, !.progress = 100]
                        ELSE tp[i]],
          ok |-> Matching(tp, plan_id, topic_name) # {}]

\* Python's round() of the quotient num / den (den > 0, num >= 0): to the
\* nearest integer, a tie going to the even one.
RoundDiv(num, den) ==
    LET q == num \div den
        r == num % den
    IN  IF 2 * r < den THEN q
        ELSE IF 2 * r > den THEN q + 1
        ELSE IF q % 2 = 0 THEN q ELSE q + 1

RECURSIVE SumProgress(_, _)
SumProgress(tp, S) ==
    IF S = {} THEN 0
    ELSE LET i == CHOOSE k \in S : TRUE
         IN  tp[i].progress + SumProgress(tp, S \ {i})

\* get_progress once the plan row is chosen.
GetProgress(sp, tp, plan_id, topic) ==
    IF plan_id = NoPlan THEN NoneRec
    ELSE IF topic # None /\ topic # ""
    THEN IF Matching(tp, plan_id, topic) = {} THEN NoneRec
         ELSE [topic |-> topic,
               progress |-> tp[CHOOSE i \in Matching(tp, plan_id, topic) :
                                 \A j \in Matching(tp, plan_id, topic) : i <= j].progress]
    ELSE [subject |-> sp[plan_id].subject,
          overall_progress |->
              IF TopicIdsOf(tp, plan_id) = {} THEN 0
              ELSE RoundDiv(SumProgress(tp, TopicIdsOf(tp, plan_id)),
                            Cardinality(TopicIdsOf(tp, plan_id)))]

\* json.dumps / json.loads of a quiz's questions: a list of objects with
\* string keys and string or list-of-string values is serialized field by
\* field and parsed back.
\* json.dumps applied to the first question only.
JsonDumpsQuestions_FirstOnly(questions) ==
    [i \in DOMAIN questions \cap {1} |->
        <<"{", <<"question", questions[i].question>>,
               <<"options", questions[i].options>>,
               <<"answer", questions[i].answer>>, "}">>]

JsonDumpsQuestions(questions) ==
    [i \in DOMAIN questions |->
        <<"{", <<"question", questions[i].question>>,
               <<"options", questions[i].options>>,
               <<"answer", questions[i].answer>>, "}">>]

JsonLoadsQuestions(text) ==
    [i \in DOMAIN text |->
        [question |-> text[i][2][2], options |-> text[i][3][2],
         answer |-> text[i][4][2]]]

\* save_quiz: one quizzes row holding the serialized questions.
SaveQuiz(qz, clock, user_id, topic, questions) ==
    [quizzes |-> Append(qz, [user_id |-> user_id, topic |-> topic,
                             questions |-> JsonDumpsQuestions(questions),
                             created_at |-> clock]),
     id |-> Len(qz) + 1]

\* get_quizzes: SELECT ... WHERE user_id = ? [AND topic = ?] ORDER BY
\* created_at DESC, each row's questions parsed back with json.loads. Rows
\* with equal created_at come in the build's tie order: QuizOrders is the set
\* holding the one order the query returns.
QuizIdsOf(qz, user_id, topic) ==
    {i \in DOMAIN qz : /\ qz[i].user_id = user_id
                       /\ (topic # None /\ topic # "") => qz[i].topic = topic}

QuizOrders(qz, S) ==
    {o \in [1..Cardinality(S) -> S] :
        /\ \A a, b \in DOMAIN o : a # b => o[a] # o[b]
        /\ \A a, b \in DOMAIN o : a < b => qz[o[a]].created_at >= qz[o[b]].created_at
        /\ \A a, b \in DOMAIN o :
              a < b /\ qz[o[a]].created_at = qz[o[b]].created_at =>
                 IF tieOrder = "lowest_id" THEN o[a] < o[b] ELSE o[a] > o[b]}

GetQuizzes(qz, order) ==
    [k \in DOMAIN order |->
        [id |-> order[k], topic |-> qz[order[k]].topic,
         questions |-> JsonLoadsQuestions(qz[order[k]].questions),
         created_at |-> qz[order[k]].created_at]]

(***************************************************************************)
(* StoreSpec: the StudyBuddyDB methods called one at a time on one         *)
(* database, with the arguments drawn from the sets below.                 *)
(***************************************************************************)
LinearEquations == "Linear Equations"
QuadraticEquations == "Quadratic Equations"

\* The (subject, goal, topics) a direct create_study_plan call submits.
PlanArgs ==
    {[subject |-> "Math", goal |-> "Master Algebra in 2 weeks",
      topics |-> <<[day |-> 1, topic |-> LinearEquations, completed |-> FALSE],
                   [day |-> 2, topic |-> QuadraticEquations, completed |-> TRUE]>>],
     [subject |-> "Art", goal |-> "Master the subject",
      topics |-> <<[day |-> 1, topic |-> "Art Fundamentals", completed |-> FALSE]>>]}

TopicArgs == {LinearEquations}
ProgressArgs == {50}

QuizArgs ==
    {[topic |-> LinearEquations,
      questions |-> <<[question |-> "Solve for x: 3x + 5 = 14",
                       options |-> <<"x = 3", "x = 4", "x = 5", "x = 6">>,
                       answer |-> "x = 3"]>>],
     [topic |-> "Art",
      questions |-> <<[question |-> "Sample question about Art?",
                       options |-> <<"Option A", "Option B">>,
                       answer |-> "Option B"],
                      [question |-> "Another question related to Art?",
                       options |-> <<"First choice", "Second choice">>,
                       answer |-> "Second choice"]>>]}

UserIdArgs == DOMAIN users

\* One more store call is made.
Called == apiCalls < MaxApiCalls /\ apiCalls' = apiCalls + 1

ApiGetOrCreateUser(name) ==
    /\ Called
    /\ LET r == GetOrCreateUser(users, name)
       IN  /\ users' = r.users
           /\ ret' = [op |-> "get_or_create_user", arg |-> name, value |-> r.id]
           /\ ids' = [ids EXCEPT ![name] = Append(@, r.id)]
    /\ UNCHANGED <<study_plans, topics, quizzes, now, tieOrder>>
    /\ UNCHANGED loopVars

ApiCreateStudyPlan(user_id, a) ==
    /\ Called
    /\ LET r == CreateStudyPlan(study_plans, topics, now, user_id,
                                a.subject, a.goal, a.topics)
       IN  /\ study_plans' = r.study_plans
           /\ topics' = r.topics
           /\ ret' = [op |-> "create_study_plan", user_id |-> user_id,
                      submitted |-> a.topics, value |-> r.id]
    /\ UNCHANGED <<users, quizzes, now, tieOrder, ids>>
    /\ UNCHANGED loopVars

ApiGetCurrentStudyPlan(user_id) ==
    /\ Called
    /\ \E plan_id \in PlanChoices(study_plans, user_id) :
          ret' = [op |-> "get_current_study_plan", user_id |-> user_id,
                  plan_id |-> plan_id,
                  value |-> CurrentStudyPlan(study_plans, topics, plan_id)]
    /\ UNCHANGED <<storeVars, ids>>
    /\ UNCHANGED loopVars

ApiUpdateTopicProgress(user_id, topic_name, value) ==
    /\ Called
    /\ \E plan_id \in PlanChoices(study_plans, user_id) :
          LET r == UpdateTopicProgress(topics, plan_id, topic_name, value)
          IN  /\ topics' = r.topics
              /\ ret' = [op |-> "update_topic_progress", user_id |-> user_id,
                         plan_id |-> plan_id, topic |-> topic_name,
                         value |-> r.ok]
    /\ UNCHANGED <<users, study_plans, quizzes, now, tieOrder, ids>>
    /\ UNCHANGED loopVars

ApiMarkTopicComplete(user_id, topic_name) ==
    /\ Called
    /\ \E plan_id \in PlanChoices(study_plans, user_id) :
          LET r == MarkTopicComplete(topics, plan_id, topic_name)
          IN  /\ topics' = r.topics
              /\ ret' = [op |-> "mark_topic_complete", user_id |-> user_id,
                         plan_id |-> plan_id, topic |-> topic_name,
                         repeated |-> /\ ret.op = "mark_topic_complete"
                                      /\ ret.user_id = user_id
                                      /\ ret.topic = topic_name,
                         value |-> r.ok]
    /\ UNCHANGED <<users, study_plans, quizzes, now, tieOrder, ids>>
    /\ UNCHANGED loopVars

ApiGetProgress(user_id, topic) ==
    /\ Called
    /\ \E plan_id \in PlanChoices(study_plans, user_id) :
          ret' = [op |-> "get_progress", user_id |-> user_id,
                  plan_id |-> plan_id, topic |-> topic,
                  value |-> GetProgress(study_plans, topics, plan_id, topic)]
    /\ UNCHANGED <<storeVars, ids>>
    /\ UNCHANGED loopVars

ApiSaveQuiz(user_id, q) ==
    /\ Called
    /\ LET r == SaveQuiz(quizzes, now, user_id, q.topic, q.questions)
       IN  /\ quizzes' = r.quizzes
           /\ ret' = [op |-> "save_quiz", user_id |-> user_id,
                      topic |-> q.topic, submitted |-> q.questions,
                      value |-> r.id]
    /\ UNCHANGED <<users, study_plans, topics, now, tieOrder, ids>>
    /\ UNCHANGED loopVars

ApiGetQuizzes(user_id, topic) ==
    /\ Called
    /\ \E order \in QuizOrders(quizzes, QuizIdsOf(quizzes, user_id, topic)) :
          ret' = [op |-> "get_quizzes", user_id |-> user_id, topic |-> topic,
                  value |-> GetQuizzes(quizzes, order)]
    /\ UNCHANGED <<storeVars, ids>>
    /\ UNCHANGED loopVars

\* A second passes on the wall clock.
Tick ==
    /\ now < MaxClock
    /\ now' = now + 1
    /\ UNCHANGED <<users, study_plans, topics, quizzes, tieOrder>>
    /\ UNCHANGED loopVars
    /\ UNCHANGED apiVars

StoreInit ==
    /\ users = <<>>
    /\ study_plans = <<>>
    /\ topics = <<>>
    /\ quizzes = <<>>
    /\ now = 0
    /\ tieOrder \in TieOrders

LoopIdle ==
    /\ mode = "app"
    /\ pc = "idle"
    /\ username = "alice"
    /\ messages = <<>>
    /\ conversation_steps = <<>>
    /\ final_output = None
    /\ pending = NoneRec
    /\ script = <<>>
    /\ toolCalls = <<>>
    /\ turnStart = 0
    /\ calls = 0
    /\ turns = 0

ApiInit ==
    /\ ret = [op |-> "none"]
    /\ ids = [u \in Usernames |-> <<>>]
    /\ apiCalls = 0

InitStore == StoreInit /\ LoopIdle /\ ApiInit

NextStore ==
    \/ \E name \in Usernames : ApiGetOrCreateUser(name)
    \/ \E user_id \in UserIdArgs, a \in PlanArgs : ApiCreateStudyPlan(user_id, a)
    \/ \E user_id \in UserIdArgs : ApiGetCurrentStudyPlan(user_id)
    \/ \E user_id \in UserIdArgs, t \in TopicArgs, v \in ProgressArgs :
          ApiUpdateTopicProgress(user_id, t, v)
    \/ \E user_id \in UserIdArgs, t \in TopicArgs : ApiMarkTopicComplete(user_id, t)
    \/ \E user_id \in UserIdArgs, t \in TopicArgs \cup {None} : ApiGetProgress(user_id, t)
    \/ \E user_id \in UserIdArgs, q \in QuizArgs : ApiSaveQuiz(user_id, q)
    \/ \E user_id \in UserIdArgs, t \in {None, "Art"} : ApiGetQuizzes(user_id, t)
    \/ Tick

StoreSpec == InitStore /\ [][NextStore]_vars

(***************************************************************************)
(* The tools. A tool takes (input, username) and returns a string; the     *)
(* f-strings the tools build are modelled as the tuple of their pieces.    *)
(* String operations of the tools (split, replace, lower, in) are given by  *)
(* their values on the inputs of the model.                                *)
(***************************************************************************)
PlanInputMath == "Subject: Math, Goal: Master Algebra in 2 weeks"
PlanInputOneWeek == "Subject: Math, Goal: Master Algebra in 1 weeks"
PlanInputZeroWeeks == "Subject: Math, Goal: Master Algebra in 0 weeks"
PlanInputArt == "Subject: Art"

\* The keys of available_tools (streamlit_app.py re-registers three of them).
AvailableTools ==
    {"create_study_plan", "answer_question", "generate_quiz",
     "check_quiz_answer", "track_progress", "retrieve_learning_material",
     "mark_topic_complete", "search_wikipedia", "search_web",
     "fetch_academic_resources"}

\* subject_and_goal.split(", Goal: ")
SplitGoal(text) ==
    CASE text = PlanInputMath -> <<"Subject: Math", "Master Algebra in 2 weeks">>
      [] text = PlanInputOneWeek -> <<"Subject: Math", "Master Algebra in 1 weeks">>
      [] text = PlanInputZeroWeeks -> <<"Subject: Math", "Master Algebra in 0 weeks">>
      [] OTHER -> <<text>>

\* parts[0].replace("Subject: ", "")
StripSubject(part) ==
    CASE part = "Subject: Math" -> "Math"
      [] part = "Subject: Art" -> "Art"
      [] OTHER -> part

\* goal.split()
Words(goal) ==
    CASE goal = "Master Algebra in 2 weeks" -> <<"Master", "Algebra", "in", "2", "weeks">>
      [] goal = "Master Algebra in 1 weeks" -> <<"Master", "Algebra", "in", "1", "weeks">>
      [] goal = "Master Algebra in 0 weeks" -> <<"Master", "Algebra", "in", "0", "weeks">>
      [] goal = "Master the subject" -> <<"Master", "the", "subject">>
      [] OTHER -> <<goal>>

\* "week" in goal.lower()
MentionsWeek(goal) ==
    goal \in {"Master Algebra in 2 weeks", "Master Algebra in 1 weeks",
              "Master Algebra in 0 weeks"}

\* s.isdigit() and int(s)
IsDigit(word) == word \in {"0", "1", "2", "3"}
IntOf(word) ==
    CASE word = "0" -> 0 [] word = "1" -> 1 [] word = "2" -> 2 [] word = "3" -> 3

DefaultTimelineDays == 14

\* timeline_days: weeks * 7 for the first all-digit word of a goal that
\* mentions "week", else (also when no word is a number) the default.
TimelineDays(goal) ==
    LET digits == SelectSeq(Words(goal), IsDigit)
    IN  IF MentionsWeek(goal) /\ digits # <<>>
        THEN IntOf(Head(digits)) * 7
        ELSE DefaultTimelineDays

MathTopics ==
    <<"Linear Equations", "Quadratic Equations", "Inequalities",
      "Functions and Graphs", "Exponents and Radicals", "Polynomials",
      "Factoring", "Rational Expressions", "Systems of Equations">>

\* The topic names generated for a subject (one branch per subject family;
\* the f-string names of the last branch are (subject, suffix) pairs).
SubjectTopics(subject) ==
    CASE subject = "Math" -> MathTopics
      [] OTHER -> <<<<subject, " Fundamentals">>, <<subject, " Intermediate Concepts">>,
                    <<subject, " Advanced Topics">>, <<subject, " Practical Applications">>,
                    <<subject, " Problem Solving">>, <<subject, " Review">>>>

Max(a, b) == IF a >= b THEN a ELSE b

\* The loop that spreads the topics over the timeline.
RECURSIVE Distribute(_, _, _, _)
Distribute(names, current_day, days_per_topic, timeline_days) ==
    IF names = <<>> \/ current_day > timeline_days THEN <<>>
    ELSE <<[day |-> current_day, topic |-> Head(names), completed |-> FALSE]>>
         \o Distribute(Tail(names), current_day + days_per_topic,
                       days_per_topic, timeline_days)

StudyPlanFor(subject, timeline_days) ==
    Distribute(SubjectTopics(subject), 1,
               Max(1, timeline_days \div Len(SubjectTopics(subject))),
               timeline_days)

\* What a tool call leaves behind: whether it raised, its return value, and
\* the store after it.
Outcome(raised, output, us, sp, tp, qz) ==
    [raised |-> raised, output |-> output, users |-> us, study_plans |-> sp,
     topics |-> tp, quizzes |-> qz]

Raises == {Outcome(TRUE, <<>>, users, study_plans, topics, quizzes)}

\* The create_study_plan tool.
ToolCreateStudyPlan(input, name) ==
    IF input = None THEN Raises          \* None.split: AttributeError
    ELSE LET parts == SplitGoal(input)
             subject == StripSubject(parts[1])
             goal == IF Len(parts) > 1 THEN parts[2] ELSE "Master the subject"
             timeline_days == TimelineDays(goal)
             study_plan == StudyPlanFor(subject, timeline_days)
             u == GetOrCreateUser(users, name)
             r == CreateStudyPlan(study_plans, topics, now, u.id, subject,
                                  goal, study_plan)
         IN  {Outcome(FALSE,
                      <<"Created a personalized study plan for ", subject,
                        " with ", ToString(Len(study_plan)),
                        " key topics spread over ", ToString(timeline_days),
                        " days.">>,
                      u.users, r.study_plans, r.topics, quizzes)}

\* The mark_topic_complete tool.
ToolMarkTopicComplete(topic, name) ==
    LET u == GetOrCreateUser(users, name)
    IN  {LET r == MarkTopicComplete(topics, plan_id, topic)
         IN  Outcome(FALSE,
                     IF r.ok
                     THEN <<"Marked '", topic, "' as completed! Well done!">>
                     ELSE <<"Topic '", topic, "' not found in your study plan.">>,
                     u.users, study_plans, r.topics, quizzes)
         : plan_id \in PlanChoices(study_plans, u.id)}

LinearEquationsQuiz ==
    <<[question |-> "Solve for x: 3x + 5 = 14",
       options |-> <<"x = 3", "x = 4", "x = 5", "x = 6">>,
       answer |-> "x = 3"],
      [question |-> "Solve for y: 2y - 8 = 12",
       options |-> <<"y = 4", "y = 8", "y = 10", "y = 12">>,
       answer |-> "y = 10"]>>

GenericQuiz(topic) ==
    <<[question |-> <<"Sample question about ", topic, "?">>,
       options |-> <<"Option A", "Option B", "Option C", "Option D">>,
       answer |-> "Option B"],
      [question |-> <<"Another question related to ", topic, "?">>,
       options |-> <<"First choice", "Second choice", "Third choice", "Fourth choice">>,
       answer |-> "Third choice"]>>

\* The predefined quiz whose key is in topic.lower() or contains it, else
\* the generic one.
QuizFor(topic) ==
    CASE topic = LinearEquations -> LinearEquationsQuiz
      [] OTHER -> GenericQuiz(topic)

\* The generate_quiz tool.
ToolGenerateQuiz(topic, name) ==
    IF topic = None THEN Raises          \* None.lower: AttributeError
    ELSE LET u == GetOrCreateUser(users, name)
             r == SaveQuiz(quizzes, now, u.id, topic, QuizFor(topic))
         IN  {Outcome(FALSE, <<"Quiz on ", topic, ":", QuizFor(topic)>>,
                      u.users, study_plans, topics, r.quizzes)}

\* Submissions to check_quiz_answer: the right answer and a wrong one to the
\* first question of the Linear Equations quiz, and one without ", Answer: ".
RightAnswer == "Question: Solve for x: 3x + 5 = 14, Answer: x = 3"
WrongAnswer == "Question: Solve for x: 3x + 5 = 14, Answer: x = 4"
NoAnswer == "x = 3"

\* answer_submission.split(", Answer: ")
SplitAnswer(text) ==
    CASE text = RightAnswer -> <<"Question: Solve for x: 3x + 5 = 14", "x = 3">>
      [] text = WrongAnswer -> <<"Question: Solve for x: 3x + 5 = 14", "x = 4">>
      [] OTHER -> <<text>>

\* parts[0].replace("Question: ", "")
StripQuestion(part) ==
    CASE part = "Question: Solve for x: 3x + 5 = 14" -> "Solve for x: 3x + 5 = 14"
      [] OTHER -> part

\* question_text in question["question"], on the question texts of the
\* model: none is a proper part of another.
OccursIn(question_text, question) == question_text = question

\* The (quiz, question) positions that hold the submitted question, and the
\* one the nested for loops reach first.
QuestionHits(found, question_text) ==
    {h \in (DOMAIN found) \X (1..4) :
        /\ h[2] \in DOMAIN found[h[1]].questions
        /\ OccursIn(question_text, found[h[1]].questions[h[2]].question)}

FirstHit(hits) ==
    CHOOSE h \in hits : \A g \in hits :
        h[1] < g[1] \/ (h[1] = g[1] /\ h[2] <= g[2])

QuizProgress == 50    \* min(100, 50)

\* The check_quiz_answer tool.
ToolCheckQuizAnswer(answer_submission, name) ==
    IF answer_submission = None THEN Raises      \* None.split: AttributeError
    ELSE IF Len(SplitAnswer(answer_submission)) # 2
    THEN {Outcome(FALSE,
                  "Invalid format. Please submit in format 'Question: [question text], Answer: [your answer]'",
                  users, study_plans, topics, quizzes)}
    ELSE LET parts == SplitAnswer(answer_submission)
             question_text == StripQuestion(parts[1])
             user_answer == parts[2]
             u == GetOrCreateUser(users, name)
         IN  {LET found == GetQuizzes(quizzes, order)
                  hits == QuestionHits(found, question_text)
              IN  IF hits = {}
                  THEN Outcome(FALSE, "Question not found in quiz history.",
                               u.users, study_plans, topics, quizzes)
                  ELSE LET quiz == found[FirstHit(hits)[1]]
                           correct_answer == quiz.questions[FirstHit(hits)[2]].answer
                       IN  IF user_answer = correct_answer
                           THEN LET plan_id == CHOOSE i \in PlanChoices(study_plans, u.id) : TRUE
                                    r == UpdateTopicProgress(topics, plan_id,
                                                             quiz.topic, QuizProgress)
                                IN  Outcome(FALSE,
                                            <<"Great job! '", user_answer, "' is correct!">>,
                                            u.users, study_plans, r.topics, quizzes)
                           ELSE Outcome(FALSE,
                                        <<"Not quite. The correct answer is '",
                                          correct_answer, "'. Keep practicing!">>,
                                        u.users, study_plans, topics, quizzes)
              : order \in QuizOrders(quizzes, QuizIdsOf(quizzes, u.id, None))}

\* The track_progress tool.
ToolTrackProgress(topic, name) ==
    LET u == GetOrCreateUser(users, name)
        plan_id == CHOOSE i \in PlanChoices(study_plans, u.id) : TRUE
        progress_data == GetProgress(study_plans, topics, plan_id, topic)
    IN  {Outcome(FALSE,
                 IF topic # None /\ topic # ""
                 THEN IF IsNone(progress_data)
                      THEN <<"No progress data available for ", topic, ".">>
                      ELSE <<"Your progress on ", topic, ": ",
                             ToString(progress_data.progress), "%">>
                 ELSE IF IsNone(progress_data)
                      THEN <<"No progress data available. Please create a study plan first.">>
                      ELSE <<"You're ", ToString(progress_data.overall_progress),
                             "% done with ", progress_data.subject, ".">>,
                 u.users, study_plans, topics, quizzes)}

\* available_tools[tool_name]["fn"](tool_input, username)
ToolOutcomes(tool_name, tool_input, name) ==
    CASE tool_name = "create_study_plan" -> ToolCreateStudyPlan(tool_input, name)
      [] tool_name = "mark_topic_complete" -> ToolMarkTopicComplete(tool_input, name)
      [] tool_name = "generate_quiz" -> ToolGenerateQuiz(tool_input, name)
      [] tool_name = "check_quiz_answer" -> ToolCheckQuizAnswer(tool_input, name)
      [] tool_name = "track_progress" -> ToolTrackProgress(tool_input, name)

(***************************************************************************)
(* ToolSpec: the tools that use the store, invoked one after another with  *)
(* the inputs below, as the agent loop invokes them for its action steps.  *)
(***************************************************************************)
ToolArgs ==
    {<<"create_study_plan", PlanInputMath>>,
     <<"create_study_plan", None>>,
     <<"mark_topic_complete", LinearEquations>>,
     <<"mark_topic_complete", "Geometry">>,
     <<"generate_quiz", LinearEquations>>,
     <<"check_quiz_answer", RightAnswer>>,
     <<"check_quiz_answer", WrongAnswer>>,
     <<"check_quiz_answer", NoAnswer>>,
     <<"track_progress", LinearEquations>>,
     <<"track_progress", None>>}

ToolInvoke(tool_name, tool_input, name) ==
    /\ apiCalls < MaxToolCalls
    /\ apiCalls' = apiCalls + 1
    /\ \E o \in ToolOutcomes(tool_name, tool_input, name) :
          /\ users' = o.users
          /\ study_plans' = o.study_plans
          /\ topics' = o.topics
          /\ quizzes' = o.quizzes
          /\ ret' = [op |-> "tool", tool |-> tool_name, input |-> tool_input,
                     username |-> name, raised |-> o.raised, output |-> o.output]
    /\ UNCHANGED <<now, tieOrder, ids>>
    /\ UNCHANGED loopVars

NextTool ==
    \/ \E name \in Usernames, a \in ToolArgs : ToolInvoke(a[1], a[2], name)
    \/ Tick

ToolSpec == InitStore /\ [][NextTool]_vars

(***************************************************************************)
(* ConcSpec: two sessions on one database file (Streamlit runs every       *)
(* browser session in a thread of its own; each store method opens its own *)
(* connection). update_topic_progress and mark_topic_complete run their    *)
(* SELECT in autocommit mode; sqlite3 opens the write transaction only at  *)
(* the UPDATE, so another connection can commit between the two. The other *)
(* session's calls take effect at their commit, in one step.               *)
(***************************************************************************)
InFlight == ~IsNone(pending)

\* The SELECT of the most recent plan; with no row the method returns False.
MutationRead(op, user_id, topic_name, value) ==
    /\ ~InFlight
    /\ Called
    /\ \E plan_id \in PlanChoices(study_plans, user_id) :
          IF plan_id = NoPlan
          THEN /\ ret' = [op |-> op, user_id |-> user_id, plan_id |-> plan_id,
                          topic |-> topic_name, value |-> FALSE]
               /\ UNCHANGED pending
          ELSE /\ pending' = [op |-> op, user_id |-> user_id,
                              plan_id |-> plan_id, topic |-> topic_name,
                              value |-> value]
               /\ UNCHANGED ret
    /\ UNCHANGED <<storeVars, ids>>
    /\ UNCHANGED <<mode, pc, username, messages, conversation_steps,
                   final_output, script, toolCalls, turnStart, calls, turns>>

\* The UPDATE with the plan id read before, and the commit.
MutationWrite ==
    /\ InFlight
    /\ pending.op # "get_or_create_user"
    /\ LET r == IF pending.op = "mark_topic_complete"
                THEN MarkTopicComplete(topics, pending.plan_id, pending.topic)
                ELSE UpdateTopicProgress(topics, pending.plan_id, pending.topic,
                                         pending.value)
       IN  /\ topics' = r.topics
           /\ ret' = [op |-> pending.op, user_id |-> pending.user_id,
                      plan_id |-> pending.plan_id, topic |-> pending.topic,
                      value |-> r.ok]
    /\ pending' = NoneRec
    /\ UNCHANGED <<users, study_plans, quizzes, now, tieOrder, ids, apiCalls>>
    /\ UNCHANGED <<mode, pc, username, messages, conversation_steps,
                   final_output, script, toolCalls, turnStart, calls, turns>>

\* get_or_create_user's SELECT: the id of the row found, or the call goes on
\* to its INSERT.
UserRead(name) ==
    /\ ~InFlight
    /\ Called
    /\ IF UserIds(users, name) # {}
       THEN /\ ret' = [op |-> "get_or_create_user", arg |-> name,
                       value |-> CHOOSE i \in UserIds(users, name) : TRUE]
            /\ ids' = [ids EXCEPT ![name] = Append(@, ret'.value)]
            /\ UNCHANGED pending
       ELSE /\ pending' = [op |-> "get_or_create_user", arg |-> name]
            /\ UNCHANGED <<ret, ids>>
    /\ UNCHANGED storeVars
    /\ UNCHANGED <<mode, pc, username, messages, conversation_steps,
                   final_output, script, toolCalls, turnStart, calls, turns>>

\* get_or_create_user's INSERT and commit: username is UNIQUE, so when
\* another connection inserted the name since the SELECT the INSERT raises
\* sqlite3.IntegrityError, which the method does not catch.
UserWrite ==
    /\ InFlight
    /\ pending.op = "get_or_create_user"
    /\ IF UserIds(users, pending.arg) # {}
       THEN /\ ret' = [op |-> "get_or_create_user", arg |-> pending.arg,
                       raised |-> TRUE, value |-> NoPlan]
            /\ UNCHANGED <<users, ids>>
       ELSE /\ users' = Append(users, pending.arg)
            /\ ret' = [op |-> "get_or_create_user", arg |-> pending.arg,
                       value |-> Len(users) + 1]
            /\ ids' = [ids EXCEPT ![pending.arg] = Append(@, Len(users) + 1)]
    /\ pending' = NoneRec
    /\ UNCHANGED <<study_plans, topics, quizzes, now, tieOrder, apiCalls>>
    /\ UNCHANGED <<mode, pc, username, messages, conversation_steps,
                   final_output, script, toolCalls, turnStart, calls, turns>>

NextConc ==
    \/ \E name \in Usernames : ApiGetOrCreateUser(name)
    \/ \E user_id \in UserIdArgs, a \in PlanArgs : ApiCreateStudyPlan(user_id, a)
    \/ \E user_id \in UserIdArgs, t \in TopicArgs :
          MutationRead("mark_topic_complete", user_id, t, 100)
    \/ \E user_id \in UserIdArgs, t \in TopicArgs, v \in ProgressArgs :
          MutationRead("update_topic_progress", user_id, t, v)
    \/ MutationWrite
    \/ \E name \in Usernames : UserRead(name)
    \/ UserWrite
    \/ \E user_id \in UserIdArgs : ApiGetCurrentStudyPlan(user_id)
    \/ Tick

ConcSpec == InitStore /\ [][NextConc]_vars

(***************************************************************************)
(* DbSpec: direct store calls and tool invocations in any order on one     *)
(* database.                                                               *)
(***************************************************************************)
NextDb == apiCalls < MaxMixedCalls /\ (NextStore \/ NextTool)

DbSpec == InitStore /\ [][NextDb]_vars

(***************************************************************************)
(* The provider: each call returns one response body.                      *)
(***************************************************************************)
\* A body that parses to a JSON object; a key the object lacks reads as None.
Object(step, content, function, input) ==
    [kind |-> "object", step |-> step, content |-> content,
     function |-> function, input |-> input]

NotJson == [kind |-> "text"]      \* json.loads raises
JsonArray == [kind |-> "array"]   \* valid JSON with no .get

PlanSteps == {Object("plan", "I should use a tool.", None, None)}

ActionSteps ==
    {Object("action", None, "create_study_plan", PlanInputMath),
     Object("action", None, "mark_topic_complete", LinearEquations),
     Object("action", None, "generate_quiz", None),
     Object("action", None, "nonexistent_tool", "x"),
     Object("action", None, None, None)}

OutputSteps == {Object("output", "Done!", None, None),
                Object("output", "sorry", None, None)}

OtherSteps == {Object("think", "Hmm.", None, None),
               Object(None, "Hello", None, None)}

Queries == {"I want to learn Math", "How is my progress?"}
ExitWords == {"exit", "quit", "bye"}

SystemMsg == [role |-> "system", content |-> "system_prompt"]
UserMsg(query) == [role |-> "user", content |-> query]
\* {"role": "assistant", "content": json.dumps(parsed_response)}
AssistantMsg(parsed) == [role |-> "assistant", content |-> parsed]
\* {"role": "assistant", "content": json.dumps({"step": "observe", "output": output})}
ObserveMsg(output) ==
    [role |-> "assistant", content |-> [step |-> "observe", output |-> output]]

NotFound(tool_name) == <<"Tool '", tool_name, "' not found">>

JsonError == "An error occurred: Expecting value"
AttributeError == "An error occurred: object has no attribute"

\* conversation_steps.append(...): run_conversation keeps the trace, main
\* prints the steps and keeps none.
Traced(entries) ==
    IF mode = "app" THEN conversation_steps \o entries ELSE conversation_steps

(***************************************************************************)
(* The agent loop.                                                         *)
(***************************************************************************)
\* run_conversation(query, st.session_state.username, ...) is called: fresh
\* messages and trace.
RunConversation(query) ==
    /\ mode = "app"
    /\ pc \in {"idle", "terminated"}
    /\ turns < MaxTurns
    /\ turns' = turns + 1
    /\ messages' = <<SystemMsg, UserMsg(query)>>
    /\ turnStart' = 2
    /\ conversation_steps' = <<>>
    /\ final_output' = None
    /\ script' = <<>>
    /\ toolCalls' = <<>>
    /\ pc' = "awaiting_model"
    /\ UNCHANGED <<mode, username, pending, calls>>
    /\ UNCHANGED storeVars
    /\ UNCHANGED apiVars

\* main starting every query from a fresh history, as run_conversation does.
MainQuery_Resets(query) ==
    /\ mode = "cli"
    /\ pc \in {"idle", "terminated"}
    /\ turns < MaxTurns
    /\ turns' = turns + 1
    /\ messages' = <<SystemMsg, UserMsg(query)>>
    /\ turnStart' = 2
    /\ final_output' = None
    /\ script' = <<>>
    /\ toolCalls' = <<>>
    /\ pc' = "awaiting_model"
    /\ UNCHANGED <<mode, username, conversation_steps, pending, calls>>
    /\ UNCHANGED storeVars
    /\ UNCHANGED apiVars

\* main reads a query that is no exit word and appends it to the module's
\* messages list.
MainQuery(query) ==
    /\ mode = "cli"
    /\ pc \in {"idle", "terminated"}
    /\ turns < MaxTurns
    /\ turns' = turns + 1
    /\ messages' = Append(messages, UserMsg(query))
    /\ turnStart' = Len(messages) + 1
    /\ final_output' = None
    /\ script' = <<>>
    /\ toolCalls' = <<>>
    /\ pc' = "awaiting_model"
    /\ UNCHANGED <<mode, username, conversation_steps, pending, calls>>
    /\ UNCHANGED storeVars
    /\ UNCHANGED apiVars

\* main reads "exit", "quit" or "bye" and returns.
MainExit ==
    /\ mode = "cli"
    /\ pc \in {"idle", "terminated"}
    /\ pc' = "exited"
    /\ UNCHANGED <<mode, username, messages, conversation_steps, final_output,
                   pending, script, toolCalls, turnStart, calls, turns>>
    /\ UNCHANGED storeVars
    /\ UNCHANGED apiVars

\* The provider called a second time for the same iteration (a retry).
Completion_Twice(r) ==
    /\ pc = "awaiting_model"
    /\ calls < MaxCalls
    /\ calls' = calls + 2
    /\ script' = Append(script, r)
    /\ UNCHANGED <<mode, username, turnStart, turns>>
    /\ UNCHANGED storeVars
    /\ UNCHANGED apiVars

\* The loop looking the user up (and creating the row) at every iteration.
Completion_CreatesUser(r) ==
    /\ pc = "awaiting_model"
    /\ calls < MaxCalls
    /\ calls' = calls + 1
    /\ script' = Append(script, r)
    /\ users' = GetOrCreateUser(users, username).users
    /\ UNCHANGED <<mode, username, turnStart, turns>>
    /\ UNCHANGED <<study_plans, topics, quizzes, now, tieOrder>>
    /\ UNCHANGED apiVars

\* One iteration begins: the provider is called once and returns body r.
Completion(r) ==
    /\ pc = "awaiting_model"
    /\ calls < MaxCalls
    /\ calls' = calls + 1
    /\ script' = Append(script, r)
    /\ UNCHANGED <<mode, username, turnStart, turns>>
    /\ UNCHANGED storeVars
    /\ UNCHANGED apiVars

\* The except branch: the turn ends with the error message.
Fail(text) ==
    /\ final_output' = text
    /\ pc' = "terminated"

\* json.loads raising treated like an unrecognized step: the loop goes on.
StepNotJson_Continues ==
    /\ Completion(NotJson)
    /\ UNCHANGED <<pc, final_output, messages, conversation_steps, pending,
                   toolCalls>>

\* json.loads raises on the body: nothing is appended.
StepNotJson ==
    /\ Completion(NotJson)
    /\ Fail(JsonError)
    /\ UNCHANGED <<messages, conversation_steps, pending, toolCalls>>

\* The body is JSON but no object: it is appended, then .get raises.
StepNotObject ==
    /\ Completion(JsonArray)
    /\ messages' = Append(messages, AssistantMsg(JsonArray))
    /\ Fail(AttributeError)
    /\ UNCHANGED <<conversation_steps, pending, toolCalls>>

\* A plan step that is traced but not appended to the history.
StepPlan_NoAppend(r) ==
    /\ r.step = "plan"
    /\ Completion(r)
    /\ conversation_steps' = Traced(<<<<"plan", r.content>>>>)
    /\ UNCHANGED <<pc, messages, final_output, pending, toolCalls>>

\* A plan step that is appended to the history but left out of the trace.
StepPlan_NoTrace(r) ==
    /\ r.step = "plan"
    /\ Completion(r)
    /\ messages' = Append(messages, AssistantMsg(r))
    /\ UNCHANGED <<pc, conversation_steps, final_output, pending, toolCalls>>

\* step == "plan": the note is traced and the loop continues.
StepPlan(r) ==
    /\ r.step = "plan"
    /\ Completion(r)
    /\ messages' = Append(messages, AssistantMsg(r))
    /\ conversation_steps' = Traced(<<<<"plan", r.content>>>>)
    /\ UNCHANGED <<pc, final_output, pending, toolCalls>>

\* An action step that is traced and answered without calling the tool.
StepAction_NoTool(r) ==
    /\ r.step = "action"
    /\ r.function \in AvailableTools
    /\ Completion(r)
    /\ messages' = Append(Append(messages, AssistantMsg(r)), ObserveMsg(<<>>))
    /\ conversation_steps' =
          Traced(<<<<"action", <<"Using ", r.function, " with input: ", r.input>>>>,
                   <<"observe", <<>>>>>>)
    /\ UNCHANGED <<pc, final_output, pending, toolCalls>>

\* step == "action" naming a key of available_tools: the tool is called next.
StepAction(r) ==
    /\ r.step = "action"
    /\ r.function \in AvailableTools
    /\ Completion(r)
    /\ messages' = Append(messages, AssistantMsg(r))
    /\ conversation_steps' =
          Traced(<<<<"action", <<"Using ", r.function, " with input: ", r.input>>>>>>)
    /\ pending' = [function |-> r.function, input |-> r.input]
    /\ pc' = "in_tool"
    /\ UNCHANGED <<final_output, toolCalls>>

\* The registry indexed without the membership test: KeyError ends the turn.
StepActionNotFound_Raises(r) ==
    /\ r.step = "action"
    /\ r.function \notin AvailableTools
    /\ Completion(r)
    /\ messages' = Append(messages, AssistantMsg(r))
    /\ conversation_steps' =
          Traced(<<<<"action", <<"Using ", r.function, " with input: ", r.input>>>>>>)
    /\ Fail("An error occurred: KeyError")
    /\ UNCHANGED <<pending, toolCalls>>

\* step == "action" naming no key of available_tools: the observation says so.
StepActionNotFound(r) ==
    /\ r.step = "action"
    /\ r.function \notin AvailableTools
    /\ Completion(r)
    /\ messages' = Append(Append(messages, AssistantMsg(r)),
                          ObserveMsg(NotFound(r.function)))
    /\ conversation_steps' =
          Traced(<<<<"action", <<"Using ", r.function, " with input: ", r.input>>>>,
                   <<"observe", NotFound(r.function)>>>>)
    /\ UNCHANGED <<pc, final_output, pending, toolCalls>>

\* An output step that records the answer but does not leave the loop.
StepOutput_KeepsLooping(r) ==
    /\ r.step = "output"
    /\ Completion(r)
    /\ messages' = Append(messages, AssistantMsg(r))
    /\ final_output' = r.content
    /\ UNCHANGED <<pc, conversation_steps, pending, toolCalls>>

\* step == "output": the turn ends with the content.
StepOutput(r) ==
    /\ r.step = "output"
    /\ Completion(r)
    /\ messages' = Append(messages, AssistantMsg(r))
    /\ final_output' = r.content
    /\ pc' = "terminated"
    /\ UNCHANGED <<conversation_steps, pending, toolCalls>>

\* Any other step value, or none: no branch is taken and the while loop
\* goes round again.
StepOther(r) ==
    /\ r.step \notin {"plan", "action", "output"}
    /\ Completion(r)
    /\ messages' = Append(messages, AssistantMsg(r))
    /\ UNCHANGED <<pc, conversation_steps, final_output, pending, toolCalls>>

\* The exception of a tool reported to the model as an observation, the loop
\* going on.
ToolCall_ObservesError ==
    /\ pc = "in_tool"
    /\ \E o \in ToolOutcomes(pending.function, pending.input, username) :
          /\ users' = o.users
          /\ study_plans' = o.study_plans
          /\ topics' = o.topics
          /\ quizzes' = o.quizzes
          /\ toolCalls' = Append(toolCalls,
                                 [function |-> pending.function,
                                  input |-> pending.input,
                                  username |-> username,
                                  raised |-> o.raised, output |-> o.output])
          /\ LET text == IF o.raised THEN AttributeError ELSE o.output
             IN  /\ messages' = Append(messages, ObserveMsg(text))
                 /\ conversation_steps' = Traced(<<<<"observe", text>>>>)
          /\ pc' = "awaiting_model"
          /\ UNCHANGED final_output
    /\ pending' = NoneRec
    /\ UNCHANGED <<now, tieOrder, mode, username, script, turnStart, calls, turns>>
    /\ UNCHANGED apiVars

\* The tool runs to its end: its observation is appended, or the exception
\* it raised ends the turn.
ToolCall ==
    /\ pc = "in_tool"
    /\ \E o \in ToolOutcomes(pending.function, pending.input, username) :
          /\ users' = o.users
          /\ study_plans' = o.study_plans
          /\ topics' = o.topics
          /\ quizzes' = o.quizzes
          /\ toolCalls' = Append(toolCalls,
                                 [function |-> pending.function,
                                  input |-> pending.input,
                                  username |-> username,
                                  raised |-> o.raised, output |-> o.output])
          /\ IF o.raised
             THEN /\ Fail(AttributeError)
                  /\ UNCHANGED <<messages, conversation_steps>>
             ELSE /\ messages' = Append(messages, ObserveMsg(o.output))
                  /\ conversation_steps' = Traced(<<<<"observe", o.output>>>>)
                  /\ pc' = "awaiting_model"
                  /\ UNCHANGED final_output
    /\ pending' = NoneRec
    /\ UNCHANGED <<now, tieOrder, mode, username, script, turnStart, calls, turns>>
    /\ UNCHANGED apiVars

\* Time passes during a turn; the loop reads the clock only inside a tool
\* (CURRENT_TIMESTAMP of an INSERT), so it is advanced there.
ToolClock == pc = "in_tool" /\ Tick

Init ==
    /\ StoreInit
    /\ ApiInit
    /\ mode \in {"app", "cli"}
    /\ pc = "idle"
    /\ username = "alice"       \* one session, one user: any name behaves alike
    /\ messages = IF mode = "cli" THEN <<SystemMsg>> ELSE <<>>
    /\ conversation_steps = <<>>
    /\ final_output = None
    /\ pending = NoneRec
    /\ script = <<>>
    /\ toolCalls = <<>>
    /\ turnStart = 0
    /\ calls = 0
    /\ turns = 0

Next ==
    \/ \E q \in Queries : RunConversation(q)
    \/ \E q \in Queries : MainQuery(q)
    \/ MainExit
    \/ StepNotJson
    \/ StepNotObject
    \/ \E r \in PlanSteps : StepPlan(r)
    \/ \E r \in ActionSteps : StepAction(r)
    \/ \E r \in ActionSteps : StepActionNotFound(r)
    \/ \E r \in OutputSteps : StepOutput(r)
    \/ \E r \in OtherSteps : StepOther(r)
    \/ ToolCall
    \/ ToolClock

Spec == Init /\ [][Next]_vars

(***************************************************************************)
(* Claims about the agent loop.                                            *)
(***************************************************************************)
Last(seq) == seq[Len(seq)]

IsStep(r, kind) == r.kind = "object" /\ r.step = kind
IsPlan(r) == IsStep(r, "plan")
IsAction(r) == IsStep(r, "action")
IsOutput(r) == IsStep(r, "output")
IsRegisteredAction(r) == IsAction(r) /\ r.function \in AvailableTools
IsUnknownAction(r) == IsAction(r) /\ r.function \notin AvailableTools
IsUnrecognized(r) == r.kind = "object" /\ r.step \notin {"plan", "action", "output"}

IsObserveMsg(m) == m.role = "assistant" /\ "output" \in DOMAIN m.content
IsObserveEntry(e) == e[1] = "observe"

\* The turn is over (main may have returned after it).
TurnOver == pc \in {"terminated", "exited"}

\* What the turn has appended to the history after its user query.
TurnMessages == SubSeq(messages, turnStart + 1, Len(messages))

\* The provider returned a new response in this step.
Responded == turns' = turns /\ Len(script') = Len(script) + 1

\* plan*, one action naming a registered tool with an input, [then the rest].
PlansThenTool(scr, n) ==
    /\ n \in DOMAIN scr
    /\ \A i \in 1..(n - 1) : IsPlan(scr[i])
    /\ IsRegisteredAction(scr[n])
    /\ scr[n].input # None

\* C1: for a provider script of any number of plan steps, one action step
\* naming a registered tool with input x, then an output step with content c,
\* the tool is invoked exactly once with (x, the turn's username), exactly one
\* observe entry is appended, carrying the tool's return value, and the turn
\* terminates with c as the final answer.
C1_ScriptedToolTurn ==
    \A n \in DOMAIN script :
        (PlansThenTool(script, n) /\ pc # "in_tool") =>
            \* the tool call returned, so the provider is asked again
            /\ Len(script) = n => pc = "awaiting_model"
            /\ (Len(script) = n \/ (Len(script) = n + 1 /\ IsOutput(script[n + 1]))) =>
                  /\ Len(toolCalls) = 1
                  /\ toolCalls[1].function = script[n].function
                  /\ toolCalls[1].input = script[n].input
                  /\ toolCalls[1].username = username
                  /\ ~toolCalls[1].raised
                  /\ SelectSeq(TurnMessages, IsObserveMsg)
                        = <<ObserveMsg(toolCalls[1].output)>>
                  /\ mode = "app" =>
                        SelectSeq(conversation_steps, IsObserveEntry)
                            = <<<<"observe", toolCalls[1].output>>>>
            /\ (Len(script) = n + 1 /\ IsOutput(script[n + 1])) =>
                  /\ TurnOver
                  /\ final_output = script[n + 1].content

\* C1 witness: plan, mark_topic_complete("Linear Equations"), output "Done!"
\* has run to its end.
C1_Witness ==
    /\ TurnOver
    /\ Len(script) = 3
    /\ IsPlan(script[1])
    /\ IsAction(script[2])
    /\ script[2].function = "mark_topic_complete"
    /\ script[2].input = LinearEquations
    /\ IsOutput(script[3])
    /\ final_output = "Done!"
    /\ Len(toolCalls) = 1

\* C2: an action step naming a function that is no key of the tool registry
\* does not raise and does not end the turn: one observe entry whose text
\* contains "not found" is appended, no tool is invoked, the store is left
\* alone, the provider is called again, and a later output step still ends
\* the turn with its content.
C2_UnknownToolRecovers ==
    [][/\ (Responded /\ IsUnknownAction(Last(script'))) =>
            /\ pc' = "awaiting_model"
            /\ final_output' = final_output
            /\ toolCalls' = toolCalls
            /\ pending' = pending
            /\ storeVars' = storeVars
            /\ Len(messages') = Len(messages) + 2
            /\ messages'[Len(messages) + 1] = AssistantMsg(Last(script'))
            /\ IsObserveMsg(Last(messages'))
            /\ Last(messages').content.output[3] = "' not found"
            /\ SubSeq(messages', 1, Len(messages)) = messages
       /\ (Responded /\ IsOutput(Last(script'))
             /\ \E i \in DOMAIN script : IsUnknownAction(script[i])) =>
            /\ pc' = "terminated"
            /\ final_output' = Last(script').content
      ]_vars

\* C2 witness: nonexistent_tool then output "sorry" ended the turn with "sorry".
C2_Witness ==
    /\ pc = "terminated"
    /\ Len(script) = 2
    /\ IsUnknownAction(script[1])
    /\ script[1].function = "nonexistent_tool"
    /\ IsOutput(script[2])
    /\ final_output = "sorry"
    /\ toolCalls = <<>>
    /\ Len(SelectSeq(TurnMessages, IsObserveMsg)) = 1

\* The number of entries of seq that satisfy Test.
Count(seq, Test(_)) == Len(SelectSeq(seq, Test))

IsResponseMsg(m) == m.role = "assistant" /\ ~IsObserveMsg(m)

\* C3: a response that is not valid JSON ends the turn at once with an error
\* result: it is the last response of the turn (the only one when it comes
\* first), no tool is invoked for it and nothing is appended to the message
\* history for it.
C3_MalformedEndsTurn ==
    \A i \in DOMAIN script :
        script[i] = NotJson =>
            /\ i = Len(script)
            /\ TurnOver
            /\ final_output = JsonError
            /\ pending = NoneRec
            /\ Count(TurnMessages, IsResponseMsg) = Len(script) - 1
            /\ Len(toolCalls) = Count(script, IsRegisteredAction)
            /\ i = 1 => TurnMessages = <<>> /\ toolCalls = <<>>

\* C3 witness: the first response of a second turn was malformed.
C3_Witness ==
    /\ turns = 2
    /\ script = <<NotJson>>
    /\ pc = "terminated"

\* C4: a response that is valid JSON but has no step, or a step other than
\* plan, action and output, ends the turn with an error result and is the
\* last provider call of the turn.
C4_UnrecognizedStepEndsTurn ==
    \A i \in DOMAIN script :
        IsUnrecognized(script[i]) =>
            /\ i = Len(script)
            /\ TurnOver
            /\ final_output \in {JsonError, AttributeError}

\* C5 as stated: every action step causes exactly one tool invocation.
C5_EveryActionInvokesATool ==
    pc # "in_tool" => Len(toolCalls) = Count(script, IsAction)

\* C5 as amended: every action step naming a registered tool causes exactly
\* one tool invocation and every other step none; at most one invocation is
\* under way, it belongs to the latest response, and it has completed before
\* the next provider call; every iteration makes exactly one provider call.
C5_OneToolPerRegisteredAction ==
    /\ [](/\ Len(toolCalls) + (IF pc = "in_tool" THEN 1 ELSE 0)
                = Count(script, IsRegisteredAction)
          /\ (pc = "in_tool") <=> (pending # NoneRec)
          /\ pc = "in_tool" =>
                /\ IsRegisteredAction(Last(script))
                /\ pending.function = Last(script).function
                /\ pending.input = Last(script).input)
    /\ [][/\ calls' # calls =>
                /\ calls' = calls + 1
                /\ Responded
                /\ pc = "awaiting_model"
                /\ pending = NoneRec
                /\ toolCalls' = toolCalls
          /\ (turns' = turns /\ script' # script) => calls' = calls + 1
          /\ toolCalls' # toolCalls =>
                \/ turns' = turns + 1
                \/ /\ pc = "in_tool"
                   /\ calls' = calls
                   /\ Len(toolCalls') = Len(toolCalls) + 1
         ]_vars

\* C5 witness: a turn with an unknown and a registered action has made one
\* tool invocation and called the provider after it.
C5_Witness ==
    /\ Len(script) = 3
    /\ IsUnknownAction(script[1])
    /\ IsRegisteredAction(script[2])
    /\ Len(toolCalls) = 1

\* C6: the loop terminates on the output step: the turn ends in the iteration
\* that receives it, with the step's content as the final answer, and no
\* provider call or tool invocation follows in that turn.
C6_OutputTerminates ==
    [][/\ (Responded /\ IsOutput(Last(script'))) =>
            /\ pc' = "terminated"
            /\ final_output' = Last(script').content
            /\ toolCalls' = toolCalls
            /\ pending' = NoneRec
       /\ (pc = "terminated" /\ turns' = turns) =>
            /\ calls' = calls
            /\ script' = script
            /\ toolCalls' = toolCalls
            /\ final_output' = final_output
            /\ storeVars' = storeVars
      ]_vars

\* C6 witness: an output step that followed a tool call ended the turn.
C6_Witness ==
    /\ pc = "terminated"
    /\ Len(script) = 2
    /\ IsRegisteredAction(script[1])
    /\ IsOutput(script[2])
    /\ final_output = "Done!"

\* The messages a turn appends for its responses scr and tool calls tcs.
RECURSIVE Appended(_, _)
Appended(scr, tcs) ==
    IF scr = <<>> THEN <<>>
    ELSE LET r == Head(scr)
         IN  IF r = NotJson THEN Appended(Tail(scr), tcs)
             ELSE IF IsRegisteredAction(r)
             THEN IF tcs = <<>> THEN <<AssistantMsg(r)>> \o Appended(Tail(scr), tcs)
                  ELSE (IF Head(tcs).raised THEN <<AssistantMsg(r)>>
                        ELSE <<AssistantMsg(r), ObserveMsg(Head(tcs).output)>>)
                       \o Appended(Tail(scr), Tail(tcs))
             ELSE IF IsUnknownAction(r)
             THEN <<AssistantMsg(r), ObserveMsg(NotFound(r.function))>>
                  \o Appended(Tail(scr), tcs)
             ELSE <<AssistantMsg(r)>> \o Appended(Tail(scr), tcs)

IsPrefix(a, b) == Len(a) <= Len(b) /\ SubSeq(b, 1, Len(a)) = a

\* The history is append-only within a turn, every parsed response is in it
\* exactly once, and the user query of the turn is at turnStart.
HistoryAppendOnly ==
    /\ [](turns > 0 =>
            /\ messages[1] = SystemMsg
            /\ messages[turnStart].role = "user"
            /\ TurnMessages = Appended(script, toolCalls))
    /\ [][turns' = turns => IsPrefix(messages, messages')]_vars

\* C7 as stated: the history of a turn starts as [system prompt, user query],
\* is append-only, holds each parsed response once, and each action step
\* appends exactly one observe message after it.
C7_HistoryFromSystemAndQuery ==
    (turns > 0 /\ pc # "in_tool") =>
        /\ turnStart = 2
        /\ messages[1] = SystemMsg
        /\ messages[2].role = "user"
        /\ Count(TurnMessages, IsResponseMsg) = Len(script) - Count(script, LAMBDA r : r = NotJson)
        /\ Count(TurnMessages, IsObserveMsg) = Count(script, IsAction)

\* C7 as amended: within one turn the history is append-only; it starts as
\* [system prompt, user query] in run_conversation and as the history of the
\* earlier turns followed by the user query in main; every parsed response
\* is appended exactly once; every action step appends exactly one observe
\* message after it, unless its tool raises, which ends the turn.
C7_HistoryAppendOnly ==
    /\ HistoryAppendOnly
    /\ [](/\ (mode = "app" /\ turns > 0) =>
                turnStart = 2 /\ messages[2].role = "user"
          /\ (turns > 0 /\ pc # "in_tool") =>
                /\ Count(TurnMessages, IsResponseMsg)
                      = Len(script) - Count(script, LAMBDA r : r = NotJson)
                /\ Count(TurnMessages, IsObserveMsg)
                      = Count(script, IsAction)
                        - Count(toolCalls, LAMBDA c : c.raised))
    /\ [][(mode = "cli" /\ turns' = turns + 1) =>
              /\ IsPrefix(messages, messages')
              /\ Len(messages') = Len(messages) + 1
              /\ turnStart' = Len(messages')]_vars

\* C7 witness: a turn of main, not its first, has appended one response and
\* one observation to the history the earlier turn left.
C7_Witness ==
    /\ mode = "cli"
    /\ turns = 2
    /\ turnStart > 2
    /\ Count(TurnMessages, IsObserveMsg) = 1
    /\ Count(TurnMessages, IsResponseMsg) = 1

\* C8 as stated: in main the history of one query is discarded before the
\* next: at the first provider call of every turn it is [system prompt, that
\* turn's user query].
C8_CliHistoryDiscarded ==
    (mode = "cli" /\ pc = "awaiting_model" /\ script = <<>>) =>
        /\ Len(messages) = 2
        /\ messages[1] = SystemMsg
        /\ messages[2].role = "user"

\* C8 as amended: main keeps the history: when a query is entered, the
\* history of the earlier turns (also of one that ended in an error) stays
\* and the query is appended to it, so at the first provider call of a turn
\* the history is the system prompt, all that the earlier turns appended and
\* last that turn's user query; run_conversation starts every turn from
\* [system prompt, user query].
C8_CliHistoryKept ==
    [][turns' = turns + 1 =>
          /\ messages'[1] = SystemMsg
          /\ Last(messages').role = "user"
          /\ Last(messages').content \in Queries
          /\ mode = "cli" => messages' = Append(messages, Last(messages'))
          /\ mode = "app" => Len(messages') = 2
      ]_vars

\* C8 witness: main is about to make the first provider call of its second
\* turn, after a turn that ended in an error, with that turn still in the
\* history.
C8_Witness ==
    /\ mode = "cli"
    /\ turns = 2
    /\ pc = "awaiting_model"
    /\ script = <<>>
    /\ Len(messages) = 4
    /\ messages[3] = AssistantMsg(JsonArray)

(***************************************************************************)
(* Claims about the store.                                                 *)
(***************************************************************************)

\* C9: get_or_create_user is idempotent. Every call made so far for a username
\* returned one and the same identifier, and the users relation holds exactly
\* one row for that username, the row with that identifier, whatever calls of
\* other store methods ran in between.
C9_GetOrCreateUserIdempotent ==
    \A u \in Usernames :
        ids[u] # <<>> =>
            /\ \A k \in DOMAIN ids[u] : ids[u][k] = ids[u][1]
            /\ UserIds(users, u) = {ids[u][1]}

\* C9 witness: a username was looked up a second time after another user and
\* a study plan had been created, and the second call has just returned.
C9_Witness ==
    /\ ret.op = "get_or_create_user"
    /\ Len(ids[ret.arg]) >= 2
    /\ Len(users) = 2
    /\ study_plans # <<>>

PlanLookups ==
    {"get_current_study_plan", "update_topic_progress", "mark_topic_complete",
     "get_progress"}

\* C10: after any sequence of create_study_plan calls for a user, however
\* closely spaced in time, the plan that get_current_study_plan and the plan
\* lookups of update_topic_progress, mark_topic_complete and get_progress
\* resolve to is the plan the last of those calls created, and
\* get_current_study_plan returns None only when the user has no plan.
C10_CurrentPlanIsLastCreated ==
    ret.op \in PlanLookups =>
        /\ ret.plan_id = IF PlansOf(study_plans, ret.user_id) = {} THEN NoPlan
                         ELSE LastCreatedPlan(study_plans, ret.user_id)
        /\ ret.op = "get_current_study_plan" =>
              (IsNone(ret.value) <=> PlansOf(study_plans, ret.user_id) = {})

\* The (day, topic) pairs of a sequence of topic records.
DayTopicPairs(seq) == {<<seq[i].day, seq[i].topic>> : i \in DOMAIN seq}

StrictlyAscendingDays(seq) ==
    \A i, j \in DOMAIN seq : i < j => seq[i].day < seq[j].day

\* A store call is made in this step.
StoreCall == apiCalls' = apiCalls + 1

\* C11: for every create_study_plan(user, subject, goal, topics), a
\* get_current_study_plan for that user called immediately afterwards returns
\* a plan whose topics are exactly the submitted ones (same day and topic
\* name, none missing, none added), in strictly ascending order of day.
C11_CurrentPlanIsWhatWasSubmitted ==
    [][(/\ StoreCall
        /\ ret.op = "create_study_plan"
        /\ ret'.op = "get_current_study_plan"
        /\ ret'.user_id = ret.user_id) =>
          /\ ~IsNone(ret'.value)
          /\ Len(ret'.value.study_plan) = Len(ret.submitted)
          /\ DayTopicPairs(ret'.value.study_plan) = DayTopicPairs(ret.submitted)
          /\ StrictlyAscendingDays(ret'.value.study_plan)
      ]_vars

\* C12: in every store state the tools can reach (create_study_plan,
\* mark_topic_complete, generate_quiz, check_quiz_answer, track_progress in
\* any order), every topic with completed = true has progress = 100.
C12_CompletedImpliesFullProgress ==
    \A i \in DOMAIN topics : topics[i].completed => topics[i].progress = 100

\* C13: mark_topic_complete is idempotent. When it is called twice in a row
\* for the same user and topic, the second call leaves every table as the
\* first call left it and returns what the first call returned; for an
\* existing topic (one the first call found, returning true) the second call
\* returns true as well and the topic is completed with progress 100.
C13_MarkTopicCompleteIdempotent ==
    [][(/\ StoreCall
        /\ ret.op = "mark_topic_complete"
        /\ ret'.op = "mark_topic_complete"
        /\ ret'.user_id = ret.user_id
        /\ ret'.topic = ret.topic) =>
          /\ <<users, study_plans, topics, quizzes>>' =
                <<users, study_plans, topics, quizzes>>
          /\ ret'.value = ret.value
          /\ ret.value =>
                /\ Matching(topics', ret'.plan_id, ret'.topic) # {}
                /\ \A i \in Matching(topics', ret'.plan_id, ret'.topic) :
                      topics'[i].completed /\ topics'[i].progress = 100
      ]_vars

\* C13 witness: mark_topic_complete has just returned true for the second
\* time in a row for a topic of the user's plan.
C13_Witness ==
    /\ ret.op = "mark_topic_complete"
    /\ ret.repeated
    /\ ret.value
    /\ \E i \in Matching(topics, ret.plan_id, ret.topic) :
          topics[i].completed /\ topics[i].progress = 100

TopicMutations == {"update_topic_progress", "mark_topic_complete"}

\* C14: update_topic_progress and mark_topic_complete modify only topics of
\* the user's most recent plan (the plan the user created last) whose name
\* equals topic_name: no row is added or removed, topics of the user's older
\* plans, other topics of that plan and the rows of other users keep their
\* values, and users, study_plans and quizzes are left unchanged.
C14_MutationsTouchOnlyTheNamedTopic ==
    [][(StoreCall /\ ret'.op \in TopicMutations) =>
          /\ <<users, study_plans, quizzes>>' = <<users, study_plans, quizzes>>
          /\ DOMAIN topics' = DOMAIN topics
          /\ \A i \in DOMAIN topics :
                topics'[i] # topics[i] =>
                    /\ PlansOf(study_plans, ret'.user_id) # {}
                    /\ topics[i].plan_id = LastCreatedPlan(study_plans, ret'.user_id)
                    /\ topics[i].topic = ret'.topic
                    /\ topics'[i].plan_id = topics[i].plan_id
                    /\ topics'[i].topic = topics[i].topic
                    /\ topics'[i].day = topics[i].day
      ]_vars

\* C15: a mutation whose target does not exist is reported as a value:
\* update_topic_progress and mark_topic_complete return true exactly when
\* the user's most recent plan (the plan the user created last) has a topic
\* with that name, and when they return false (no plan, or no such topic)
\* the store is unchanged.
C15_MissingTargetIsReported ==
    [][(StoreCall /\ ret'.op \in TopicMutations) =>
          /\ ret'.value =
                (/\ PlansOf(study_plans, ret'.user_id) # {}
                 /\ Matching(topics, LastCreatedPlan(study_plans, ret'.user_id),
                             ret'.topic) # {})
          /\ ~ret'.value =>
                <<users, study_plans, topics, quizzes>>' =
                   <<users, study_plans, topics, quizzes>>
      ]_vars

\* v is the quotient num / den rounded to a nearest integer.
IsNearest(v, num, den) ==
    /\ 2 * (v * den - num) <= den
    /\ 2 * (num - v * den) <= den

\* C16: get_progress without a topic returns the arithmetic mean of the
\* progress values of all topics of the user's most recent plan (the plan
\* the user created last), rounded to the nearest integer; topics of older
\* plans do not contribute.
C16_OverallProgressIsMeanOfCurrentPlan ==
    (/\ ret.op = "get_progress"
     /\ ret.topic = None
     /\ ~IsNone(ret.value)) =>
        LET plan_id == LastCreatedPlan(study_plans, ret.user_id)
            rows == TopicIdsOf(topics, plan_id)
        IN  rows # {} =>
               IsNearest(ret.value.overall_progress, SumProgress(topics, rows),
                         Cardinality(rows))

\* C17: quiz round trip. A get_quizzes for the user (with no topic filter or
\* with the quiz's topic) right after save_quiz(user, topic, questions)
\* contains the quiz just saved, with the same number of questions, in the
\* same order, each with the submitted question text, options and answer;
\* and no operation ever changes or removes a saved quiz.
C17_QuizRoundTrip ==
    /\ [][(/\ StoreCall
            /\ ret.op = "save_quiz"
            /\ ret'.op = "get_quizzes"
            /\ ret'.user_id = ret.user_id
            /\ ret'.topic \in {None, ret.topic}) =>
              \E k \in DOMAIN ret'.value :
                  /\ ret'.value[k].id = ret.value
                  /\ ret'.value[k].topic = ret.topic
                  /\ Len(ret'.value[k].questions) = Len(ret.submitted)
                  /\ ret'.value[k].questions = ret.submitted
          ]_vars
    /\ [][/\ Len(quizzes') >= Len(quizzes)
          /\ \A i \in DOMAIN quizzes : quizzes'[i] = quizzes[i]]_vars

\* C17 witness: get_quizzes has just returned two quizzes of a user, one of
\* them with two questions, after other store calls.
C17_Witness ==
    /\ ret.op = "get_quizzes"
    /\ Len(ret.value) = 2
    /\ \E k \in DOMAIN ret.value : Len(ret.value[k].questions) = 2
    /\ study_plans # <<>>

\* C18: create_study_plan stores every submitted topic, in the order
\* submitted, as a row of the new plan with the submitted day, name and
\* completed flag and with progress = 0 whatever the completed flag is.
C18_TopicsStoredWithZeroProgress ==
    ret.op = "create_study_plan" =>
        /\ Cardinality(TopicIdsOf(topics, ret.value)) = Len(ret.submitted)
        /\ \A k \in DOMAIN ret.submitted :
              topics[Len(topics) - Len(ret.submitted) + k] =
                 [plan_id |-> ret.value, day |-> ret.submitted[k].day,
                  topic |-> ret.submitted[k].topic,
                  completed |-> ret.submitted[k].completed, progress |-> 0]

\* C18 witness: a plan was just created with a topic submitted as completed,
\* stored completed and with progress 0.
C18_Witness ==
    /\ ret.op = "create_study_plan"
    /\ \E i \in TopicIdsOf(topics, ret.value) :
          topics[i].completed /\ topics[i].progress = 0
    /\ \E i \in TopicIdsOf(topics, ret.value) : ~topics[i].completed

\* C19: under any sequence of store operations and tool invocations no row
\* of users, study_plans, topics or quizzes is ever removed (every row stays
\* under its id, a user row with its username and a topic row in its plan),
\* a study plan's owner, subject and goal never change, and a quiz's owner,
\* topic and questions never change.
C19_RowsStayAndKeepTheirIdentity ==
    [][/\ Len(users') >= Len(users)
       /\ \A i \in DOMAIN users : users'[i] = users[i]
       /\ Len(study_plans') >= Len(study_plans)
       /\ \A i \in DOMAIN study_plans :
             /\ study_plans'[i].user_id = study_plans[i].user_id
             /\ study_plans'[i].subject = study_plans[i].subject
             /\ study_plans'[i].goal = study_plans[i].goal
       /\ Len(topics') >= Len(topics)
       /\ \A i \in DOMAIN topics :
             /\ topics'[i].plan_id = topics[i].plan_id
             /\ topics'[i].topic = topics[i].topic
       /\ Len(quizzes') >= Len(quizzes)
       /\ \A i \in DOMAIN quizzes :
             /\ quizzes'[i].user_id = quizzes[i].user_id
             /\ quizzes'[i].topic = quizzes[i].topic
             /\ quizzes'[i].questions = quizzes[i].questions
      ]_vars

\* C19 witness: two users, a plan and a quiz exist and a topic of the plan
\* has been updated since it was inserted.
C19_Witness ==
    /\ Len(users) = 2
    /\ study_plans # <<>>
    /\ quizzes # <<>>
    /\ \E i \in DOMAIN topics : topics[i].progress > 0

\* C20: each store operation is atomic with respect to concurrent operations
\* on the same user: when mark_topic_complete or update_topic_progress
\* commits its update, the plan it updates is the plan the most-recent-plan
\* lookup resolves to in the state it commits against, whatever a concurrent
\* create_study_plan for the same user committed in between.
C20_UpdateHitsThePlanCurrentAtCommit ==
    [][(InFlight /\ pending.op # "get_or_create_user" /\ ~InFlight') =>
          pending.plan_id \in PlanChoices(study_plans, pending.user_id)]_vars

\* The call ret describes ended in an exception.
Raised(r) == "raised" \in DOMAIN r /\ r.raised

\* C21: under any interleaving of two concurrent get_or_create_user calls
\* for the same new username the users relation never holds two rows with
\* one username, and neither call fails: every call returns the identifier
\* of the single row with that username.
C21_ConcurrentGetOrCreateUser ==
    /\ \A u \in Usernames : Cardinality(UserIds(users, u)) <= 1
    /\ ret.op = "get_or_create_user" =>
          /\ ~Raised(ret)
          /\ UserIds(users, ret.arg) = {ret.value}

\* A registered tool raised in this step.
ToolRaises ==
    /\ Len(toolCalls') = Len(toolCalls) + 1
    /\ Last(toolCalls').raised

\* The last tool call of the turn raised.
ToolRaised == toolCalls # <<>> /\ Last(toolCalls).raised

\* C22: when a registered tool raises during an action step the turn ends with
\* an error result, as for a protocol error: no observe entry is appended for
\* that action (history and trace end with the action), the provider is not
\* called again in the turn, and the store stays as the tool left it, at the
\* raise and for the rest of the turn.
C22_RaisingToolEndsTurn ==
    [][/\ ToolRaises =>
            /\ pc' = "terminated"
            /\ final_output' = AttributeError
            /\ IsRegisteredAction(Last(script))
            /\ Last(toolCalls').function = Last(script).function
            /\ messages' = messages
            /\ Last(messages) = AssistantMsg(Last(script))
            /\ conversation_steps' = conversation_steps
            /\ mode = "app" => Last(conversation_steps)[1] = "action"
            /\ script' = script
            /\ calls' = calls
            /\ \E o \in ToolOutcomes(pending.function, pending.input, username) :
                  /\ o.raised
                  /\ <<users', study_plans', topics', quizzes'>>
                        = <<o.users, o.study_plans, o.topics, o.quizzes>>
       /\ (ToolRaised /\ turns' = turns) =>
            /\ pc' \in {"terminated", "exited"}
            /\ storeVars' = storeVars
            /\ script' = script
            /\ calls' = calls
            /\ messages' = messages
            /\ conversation_steps' = conversation_steps
            /\ final_output' = final_output
      ]_vars

\* C22 witness: generate_quiz raised on a store that an earlier turn had
\* written, and the turn is over with the error result.
C22_Witness ==
    /\ ToolRaised
    /\ pc = "terminated"
    /\ final_output = AttributeError
    /\ Last(script).function = "generate_quiz"
    /\ turns = 2
    /\ users # <<>>

\* C23: within the agent loop the store changes only while a registered tool
\* is being invoked for an action step; receiving a plan step, an output
\* step, an action step naming an unknown tool or a malformed response, and
\* starting or leaving a turn, leave the store unchanged.
C23_StoreTouchedOnlyInTools ==
    [][/\ storeVars' # storeVars =>
            /\ pc = "in_tool"
            /\ InFlight
            /\ pending.function \in AvailableTools
            /\ IsRegisteredAction(Last(script))
       /\ Responded => storeVars' = storeVars
       /\ turns' # turns => storeVars' = storeVars
      ]_vars

\* C23 witness: after create_study_plan wrote the store, a plan step and an
\* action naming an unknown tool were received.
C23_Witness ==
    /\ Len(script) = 3
    /\ IsRegisteredAction(script[1])
    /\ script[1].function = "create_study_plan"
    /\ IsPlan(script[2])
    /\ IsUnknownAction(script[3])
    /\ study_plans # <<>>
    /\ pc = "awaiting_model"

\* C24: under any sequence of tool invocations the progress of every stored
\* topic is an integer from 0 to 100.
C24_ProgressWithinBounds ==
    \A i \in DOMAIN topics : topics[i].progress \in 0..100

\* C24 witness: the tools have written progress: a correct quiz answer was
\* checked on a plan that holds a topic at 50 and the rest at 0.
C24_Witness ==
    /\ ret.op = "tool"
    /\ ret.tool = "check_quiz_answer"
    /\ ret.input = RightAnswer
    /\ \E i \in DOMAIN topics : topics[i].progress = 50
    /\ \E i \in DOMAIN topics : topics[i].progress = 0

(***************************************************************************)
(* RepeatSpec: the store called with a plan that names one topic twice     *)
(* (create_study_plan takes any list of topics; the tool's fixed lists     *)
(* never repeat a name, a direct caller can).                              *)
(***************************************************************************)
RepeatPlanArgs ==
    {[subject |-> "Math", goal |-> "Master Algebra in 2 weeks",
      topics |-> <<[day |-> 1, topic |-> LinearEquations, completed |-> FALSE],
                   [day |-> 2, topic |-> QuadraticEquations, completed |-> FALSE],
                   [day |-> 3, topic |-> LinearEquations, completed |-> FALSE]>>]}

NextRepeat ==
    \/ \E name \in Usernames : ApiGetOrCreateUser(name)
    \/ \E user_id \in UserIdArgs, a \in RepeatPlanArgs : ApiCreateStudyPlan(user_id, a)
    \/ \E user_id \in UserIdArgs : ApiGetCurrentStudyPlan(user_id)
    \/ \E user_id \in UserIdArgs, t \in TopicArgs, v \in ProgressArgs :
          ApiUpdateTopicProgress(user_id, t, v)
    \/ \E user_id \in UserIdArgs, t \in TopicArgs : ApiMarkTopicComplete(user_id, t)
    \/ Tick

RepeatSpec == InitStore /\ [][NextRepeat]_vars

\* This step is a call of update_topic_progress or mark_topic_complete that
\* found a plan holding the named topic more than once.
RepeatedTopicCall ==
    /\ StoreCall
    /\ ret'.op \in {"update_topic_progress", "mark_topic_complete"}
    /\ ret'.plan_id # NoPlan
    /\ Cardinality(Matching(topics, ret'.plan_id, ret'.topic)) >= 2

\* C25 as stated: when the most recent plan holds the named topic more than
\* once, update_topic_progress and mark_topic_complete change the first
\* matching topic only and leave the others with that name unchanged.
C25_FirstMatchOnly ==
    [][RepeatedTopicCall =>
          \A i \in Matching(topics, ret'.plan_id, ret'.topic) :
              i # SetMin(Matching(topics, ret'.plan_id, ret'.topic))
                  => topics'[i] = topics[i]
      ]_vars

\* C25 amended: when the plan the call selects as the user's most recent
\* holds the named topic more than once, update_topic_progress sets the
\* progress of every topic of that plan with that name, mark_topic_complete
\* completes every one of them, and no other topic row changes.
C25_EveryMatchChanges ==
    [][RepeatedTopicCall =>
          /\ ret'.plan_id \in MostRecentPlans(study_plans, ret'.user_id)
          /\ ret'.value
          /\ DOMAIN topics' = DOMAIN topics
          /\ \A i \in DOMAIN topics :
                IF i \in Matching(topics, ret'.plan_id, ret'.topic)
                THEN IF ret'.op = "mark_topic_complete"
                     THEN topics'[i] = [topics[i] EXCEPT !.completed = TRUE,
                                                         !.progress = 100]
                     ELSE \E v \in ProgressArgs :
                             topics'[i] = [topics[i] EXCEPT !.progress = v]
                ELSE topics'[i] = topics[i]
      ]_vars

\* C25 witness: mark_topic_complete was called on a plan with two Linear
\* Equations topics, and both are complete while the topic between them is
\* not.
C25_Witness ==
    /\ ret.op = "mark_topic_complete"
    /\ ret.value
    /\ Cardinality(Matching(topics, ret.plan_id, ret.topic)) = 2
    /\ \A i \in Matching(topics, ret.plan_id, ret.topic) :
          topics[i].completed /\ topics[i].progress = 100
    /\ \E i \in DOMAIN topics :
          /\ topics[i].plan_id = ret.plan_id
          /\ topics[i].topic = QuadraticEquations
          /\ ~topics[i].completed

\* The kinds of a trace, in order.
Kinds(trace) == [i \in DOMAIN trace |-> trace[i][1]]

\* Every action entry is immediately followed by exactly one observe entry
\* and every observe entry immediately preceded by an action entry.
ActionsObserved(kinds) ==
    \A i \in DOMAIN kinds :
        /\ kinds[i] \in {"plan", "action", "observe"}
        /\ kinds[i] = "action" =>
              /\ i < Len(kinds)
              /\ kinds[i + 1] = "observe"
        /\ kinds[i] = "observe" =>
              /\ i > 1
              /\ kinds[i - 1] = "action"

\* The kinds the responses of a turn call for, in the order of the
\* responses: plan for a plan step, action then observe for an action step,
\* nothing for an output step or a response that ends the turn in error.
RECURSIVE StepKinds(_)
StepKinds(scr) ==
    IF scr = <<>> THEN <<>>
    ELSE LET r == Last(scr)
             before == StepKinds(SubSeq(scr, 1, Len(scr) - 1))
         IN  IF r.kind # "object" THEN before
             ELSE IF r.step = "plan" THEN before \o <<"plan">>
             ELSE IF r.step = "action" THEN before \o <<"action", "observe">>
             ELSE before

\* C26 as stated: on every exit path, error termination included, the trace
\* run_conversation returns holds only plan, action and observe entries,
\* every action entry immediately followed by exactly one observe entry and
\* every observe entry immediately preceded by an action entry.
C26_TraceWellFormed ==
    (mode = "app" /\ pc = "terminated") =>
        ActionsObserved(Kinds(conversation_steps))

\* C26 amended: on every exit path the trace holds, in the order of the
\* responses, one plan entry per plan step and one action entry followed by
\* one observe entry per action step, except that when the turn ends because
\* a registered tool raised the trace ends with that tool's action entry
\* and no observe entry follows it.
C26_TraceFollowsSteps ==
    (mode = "app" /\ pc = "terminated") =>
        LET kinds == StepKinds(script)
        IN  Kinds(conversation_steps)
              = IF ToolRaised THEN SubSeq(kinds, 1, Len(kinds) - 1) ELSE kinds

\* C26 witness: a turn of a plan step and an action step whose tool raised
\* has returned a trace of two entries.
C26_Witness ==
    /\ mode = "app"
    /\ pc = "terminated"
    /\ ToolRaised
    /\ Len(script) = 2
    /\ IsPlan(script[1])
    /\ Kinds(conversation_steps) = <<"plan", "action">>

\* What the store answers for a username: the results of
\* get_current_study_plan, get_progress (overall and for Linear Equations)
\* and get_quizzes for the user's id, or no user.
ResultsFor(us, sp, tp, qz, name) ==
    IF UserIds(us, name) = {} THEN NoneRec
    ELSE LET user_id == CHOOSE i \in UserIds(us, name) : TRUE
             plan_id == CHOOSE i \in PlanChoices(sp, user_id) : TRUE
             order == CHOOSE o \in QuizOrders(qz, QuizIdsOf(qz, user_id, None)) : TRUE
         IN  [user_id |-> user_id,
              plan |-> CurrentStudyPlan(sp, tp, plan_id),
              overall |-> GetProgress(sp, tp, plan_id, None),
              topic |-> GetProgress(sp, tp, plan_id, LinearEquations),
              quizzes |-> GetQuizzes(qz, order)]

C28_ProgressNeverDecreases ==
    [][(StoreCall /\ ret'.op = "tool") =>
          \A i \in DOMAIN topics : topics'[i].progress >= topics[i].progress
      ]_vars

(***************************************************************************)
(* PlanSpec: the create_study_plan tool invoked with goals of two weeks,   *)
(* one week and no week at all, and with a subject without a goal.         *)
(***************************************************************************)
PlanInputs == {PlanInputMath, PlanInputOneWeek, PlanInputZeroWeeks, PlanInputArt}

NextPlan ==
    \/ \E name \in Usernames, input \in PlanInputs :
          ToolInvoke("create_study_plan", input, name)
    \/ Tick

PlanSpec == InitStore /\ [][NextPlan]_vars

\* The days of a stored plan's topics start at 1, increase strictly and lie
\* within 1..timeline_days.
DaysWithinTimeline(plan_id) ==
    LET rows == TopicsByDay(topics, TopicIdsOf(topics, plan_id))
        timeline_days == TimelineDays(study_plans[plan_id].goal)
    IN  /\ rows # <<>> => rows[1].day = 1
        /\ \A i \in DOMAIN rows : rows[i].day \in 1..timeline_days
        /\ \A i, j \in DOMAIN rows : i < j => rows[i].day < rows[j].day

\* The create_study_plan tool has just stored a plan.
PlanStored ==
    /\ ret.op = "tool"
    /\ ret.tool = "create_study_plan"
    /\ ~ret.raised

\* C29: every plan stored by the create_study_plan tool, for any subject and
\* any number of weeks parsed from the goal, holds at least one topic, its
\* topic days start at 1, increase strictly and lie within 1..timeline_days,
\* and the topic count in the returned message equals the number of topic
\* rows stored.
C29_StoredPlanHasTopicsWithinTimeline ==
    /\ \A plan_id \in DOMAIN study_plans :
          /\ TopicIdsOf(topics, plan_id) # {}
          /\ DaysWithinTimeline(plan_id)
    /\ PlanStored =>
          ret.output[4] = ToString(Cardinality(TopicIdsOf(topics, Len(study_plans))))
====
